---- MODULE Spec2Model ----
(***************************************************************************)
(* The Verse lexer of verse_lexer/verse.py: the rule table VerseLexer.tokens *)
(* (an ordered list of (regex, action, new state) per lexical state), the   *)
(* scanning loop that drives it, and the heuristic scorer analyse_text;     *)
(* and the debug command line of verse_lexer/test_lexer.py.                 *)
(*                                                                          *)
(* A text is a string; positions are 1-based; a span <<s, e>> covers the    *)
(* characters s .. e-1.  A regex is an operator that, given the text and    *)
(* the cursor, returns the match as the tuple <<group 0, group 1, ...>> of  *)
(* spans (NoGroup for a group that did not take part), or NoMatch.          *)
(***************************************************************************)
EXTENDS Integers, Sequences, FiniteSets, TLC

VARIABLES
    text,        \* the text being lexed
    pos,         \* the cursor: index of the next unconsumed character
    statestack,  \* the stack of lexical states, bottom first
    tokens,      \* the (kind, span text) pairs emitted so far
    pass,        \* 1: lexing the input, 2: re-lexing the concatenated spans
    first,       \* the tokens of pass 1, kept for pass 2
    score,       \* analyse_text's result in tenths, -1 before it has run
    argv,        \* test_lexer.py: sys.argv[1:], the command line arguments
    argi,        \* the index i of the argument being read
    block_id,    \* the block asked for
    markdown_file,  \* the name of the markdown file
    files,       \* the file system: (directory, name, content) triples
    content,     \* the content read from the markdown file
    blocks,      \* the (id, code) pairs extracted from the content
    blocks_to_test,  \* the pairs selected by block_id
    printed,     \* what has been printed, one tag per message
    pc,          \* where main is
    exit_code    \* the exit code of the process, -1 while it runs

lexVars == <<text, pos, statestack, tokens, pass, first, score>>

cliVars == <<argv, argi, block_id, markdown_file, files, content, blocks,
             blocks_to_test, printed, pc, exit_code>>

vars == <<lexVars, cliVars>>

----------------------------------------------------------------------------
(* Characters and character classes.                                        *)

Lower == {"a","b","c","d","e","f","g","h","i","j","k","l","m",
          "n","o","p","q","r","s","t","u","v","w","x","y","z"}
Upper == {"A","B","C","D","E","F","G","H","I","J","K","L","M",
          "N","O","P","Q","R","S","T","U","V","W","X","Y","Z"}
Digit == {"0","1","2","3","4","5","6","7","8","9"}
\* [a-zA-Z_]
IdentStart == Lower \cup Upper \cup {"_"}
\* \w
Word == IdentStart \cup Digit
\* \s
Space == {" ", "\t", "\n", "\r", "\f"}

\* A class is a set of characters, or the complement of one ([^...]).
In(S) == [neg |-> FALSE, set |-> S]
NotIn(S) == [neg |-> TRUE, set |-> S]

\* The character at p, "" outside the text.
Ch(t, p) == IF p >= 1 /\ p <= Len(t) THEN SubSeq(t, p, p) ELSE ""

Has(t, p, cls) == p >= 1 /\ p <= Len(t) /\ ((Ch(t, p) \in cls.set) # cls.neg)

\* The literal lit stands at p.
At(t, p, lit) == p >= 1 /\ p + Len(lit) - 1 <= Len(t) /\ SubSeq(t, p, p + Len(lit) - 1) = lit

\* cls* at p, greedy: the end of the longest run of cls characters from p.
RECURSIVE Run(_, _, _)
Run(t, p, cls) == IF Has(t, p, cls) THEN Run(t, p + 1, cls) ELSE p

\* \b at p: exactly one of the characters before and at p is a word character.
Boundary(t, p) == Has(t, p - 1, In(Word)) # Has(t, p, In(Word))

NoMatch == <<>>
NoGroup == <<0, 0>>
\* A match without groups, and the end of a match.
Whole(p, e) == <<(<<p, e>>)>>
MEnd(m) == m[1][2]

----------------------------------------------------------------------------
(* verse.py 36-76: the word lists.                                          *)

specifiers == {
    "abstract", "computes", "constructor", "private", "public", "protected",
    "final", "decides", "inline", "native", "override", "suspends", "transacts",
    "internal", "reads", "writes", "allocates", "scoped", "converges",
    "castable", "concrete", "unique", "final_super", "open", "closed",
    "native_callable", "module_scoped_var_weak_map_key", "epic_internal",
    "persistable"}

block_keywords == {"if", "then", "else", "for", "block", "loop", "array", "case"}

data_structure_keywords == {"module", "interface", "class", "struct", "enum"}

\* A variant without 'using': var and set only.
decl_keywords_NoUsing == {"var", "set"}

decl_keywords == {"var", "set", "using"}

type_keywords == {"int", "float", "string", "logic", "char", "any", "void",
                  "option", "comparable", "rational", "tuple", "type"}

reserved_words == {"do", "while", "break", "return", "yield", "spawn", "sync",
                   "race", "branch", "Self", "where", "continue"}

logical_operators == {"and", "or", "not"}

----------------------------------------------------------------------------
(* verse.py 79-146: the regexes of state root, in the order of the table.   *)
(* re.match with flags MULTILINE | DOTALL: leftmost alternative first,      *)
(* greedy quantifiers, and \b looks at the character before the cursor.     *)

\* words(list, suffix=r'\b'): one of the words, then a word boundary.
Words(t, p, list) ==
    LET c == {w \in list : At(t, p, w) /\ Boundary(t, p + Len(w))}
    IN  IF c = {} THEN NoMatch ELSE Whole(p, p + Len(CHOOSE w \in c : TRUE))

\* A faulty variant: r'\s*', which matches the empty string.
ReWhitespace_MayBeEmpty(t, p) == Whole(p, Run(t, p, In(Space)))

\* r'\s+'
ReWhitespace(t, p) ==
    LET e == Run(t, p, In(Space)) IN IF e > p THEN Whole(p, e) ELSE NoMatch

\* r'#[^\n]*'
ReCommentSingle(t, p) ==
    IF At(t, p, "#") THEN Whole(p, Run(t, p + 1, NotIn({"\n"}))) ELSE NoMatch

\* A faulty variant: r'(using)\s*(\{)', the whitespace outside the groups.
ReUsing_WhitespaceUngrouped(t, p) ==
    LET w == Run(t, p + 5, In(Space))
    IN  IF At(t, p, "using") /\ At(t, w, "{")
        THEN <<(<<p, w + 1>>), <<p, p + 5>>, NoGroup, <<w, w + 1>> >>
        ELSE NoMatch

\* r'(using)(\s*)(\{)'
ReUsing(t, p) ==
    LET w == Run(t, p + 5, In(Space))
    IN  IF At(t, p, "using") /\ At(t, w, "{")
        THEN <<(<<p, w + 1>>), <<p, p + 5>>, <<p + 5, w>>, <<w, w + 1>> >>
        ELSE NoMatch

\* r'<(' + '|'.join(specifiers) + r')(\{[^}]*\})?>'
\* The word must be followed by '{' or '>', so at most one specifier fits.
ReSpecifier(t, p) ==
    LET c == {w \in specifiers : At(t, p + 1, w) /\ Has(t, p + 1 + Len(w), In({">", "{"}))}
        q == p + 1 + Len(CHOOSE w \in c : TRUE)
        r == Run(t, q + 1, NotIn({"}"}))
    IN  IF ~At(t, p, "<") \/ c = {} THEN NoMatch
        ELSE IF At(t, q, ">") THEN Whole(p, q + 1)
        ELSE IF At(t, r, "}>") THEN Whole(p, r + 2)
        ELSE NoMatch

\* A faulty variant: the whitespace between keyword and name outside the groups.
ReDataStructure_WhitespaceUngrouped(t, p) ==
    LET c == {w \in data_structure_keywords : At(t, p, w)}
        k == p + Len(CHOOSE w \in c : TRUE)
        s == Run(t, k, In(Space))
        e == Run(t, s, In(Word))
    IN  IF Boundary(t, p) /\ c # {} /\ s > k /\ Has(t, s, In(IdentStart))
        THEN <<(<<p, e>>), <<p, k>>, NoGroup, <<s, e>> >>
        ELSE NoMatch

\* r'\b(' + '|'.join(data_structure_keywords) + r')(\s+)([a-zA-Z_]\w*)'
ReDataStructure(t, p) ==
    LET c == {w \in data_structure_keywords : At(t, p, w)}
        k == p + Len(CHOOSE w \in c : TRUE)
        s == Run(t, k, In(Space))
        e == Run(t, s, In(Word))
    IN  IF Boundary(t, p) /\ c # {} /\ s > k /\ Has(t, s, In(IdentStart))
        THEN <<(<<p, e>>), <<p, k>>, <<k, s>>, <<s, e>> >>
        ELSE NoMatch

\* r'\b([a-zA-Z_]\w*)(\s*)(<[^>]+>)?(\s*)(\()'
ReFunction(t, p) ==
    LET i == Run(t, p, In(Word))
        w == Run(t, i, In(Space))
        r == Run(t, w + 1, NotIn({">"}))
        generic == At(t, w, "<") /\ r > w + 1 /\ At(t, r, ">")
        a == IF generic THEN r + 1 ELSE w
        b == Run(t, a, In(Space))
    IN  IF Boundary(t, p) /\ Has(t, p, In(IdentStart)) /\ At(t, b, "(")
        THEN <<(<<p, b + 1>>), <<p, i>>, <<i, w>>,
               IF generic THEN <<w, a>> ELSE NoGroup, <<a, b>>, <<b, b + 1>> >>
        ELSE NoMatch

\* r'\b(true|false)\b'
ReBoolean(t, p) == IF Boundary(t, p) THEN Words(t, p, {"true", "false"}) ELSE NoMatch

\* ([eE][+-]?[0-9]+) at q: its end, or 0 when there is no exponent at q.
Exponent(t, q) ==
    LET s == IF Has(t, q + 1, In({"+", "-"})) THEN q + 2 ELSE q + 1
        e == Run(t, s, In(Digit))
    IN  IF Has(t, q, In({"e", "E"})) /\ e > s THEN e ELSE 0

\* r'0b[01_]+'
ReBin(t, p) ==
    LET e == Run(t, p + 2, In({"0", "1", "_"}))
    IN  IF At(t, p, "0b") /\ e > p + 2 THEN Whole(p, e) ELSE NoMatch

\* r'0o[0-7_]+'
ReOct(t, p) ==
    LET e == Run(t, p + 2, In({"0", "1", "2", "3", "4", "5", "6", "7", "_"}))
    IN  IF At(t, p, "0o") /\ e > p + 2 THEN Whole(p, e) ELSE NoMatch

\* r'0x[0-9a-fA-F_]+'
ReHex(t, p) ==
    LET e == Run(t, p + 2, In(Digit \cup {"a", "b", "c", "d", "e", "f",
                                         "A", "B", "C", "D", "E", "F", "_"}))
    IN  IF At(t, p, "0x") /\ e > p + 2 THEN Whole(p, e) ELSE NoMatch

\* r'[0-9]+\.[0-9]*([eE][+-]?[0-9]+)?'
ReFloatDot(t, p) ==
    LET d == Run(t, p, In(Digit))
        f == Run(t, d + 1, In(Digit))
        x == Exponent(t, f)
    IN  IF d > p /\ At(t, d, ".") THEN Whole(p, IF x > 0 THEN x ELSE f) ELSE NoMatch

\* r'\.[0-9]+([eE][+-]?[0-9]+)?'
ReFloatLeadingDot(t, p) ==
    LET f == Run(t, p + 1, In(Digit))
        x == Exponent(t, f)
    IN  IF At(t, p, ".") /\ f > p + 1 THEN Whole(p, IF x > 0 THEN x ELSE f) ELSE NoMatch

\* r'[0-9]+([eE][+-]?[0-9]+)'
ReFloatExp(t, p) ==
    LET d == Run(t, p, In(Digit))
        x == Exponent(t, d)
    IN  IF d > p /\ x > 0 THEN Whole(p, x) ELSE NoMatch

\* r'[0-9][0-9_]*'
ReInteger(t, p) ==
    IF Has(t, p, In(Digit)) THEN Whole(p, Run(t, p + 1, In(Digit \cup {"_"}))) ELSE NoMatch

\* (\\\\|\\[^\\]|[^'\\])* at q: a backslash takes the next character with it,
\* whichever it is; the repetition stops at the first quote outside such a
\* pair, at a backslash that ends the text, or at the end of the text.
RECURSIVE SingleBody(_, _)
SingleBody(t, q) ==
    IF At(t, q, "\\") THEN (IF q + 1 <= Len(t) THEN SingleBody(t, q + 2) ELSE q)
    ELSE IF Has(t, q, NotIn({"'"})) THEN SingleBody(t, q + 1)
    ELSE q

\* r"'(\\\\|\\[^\\]|[^'\\])*'"
ReStringSingle(t, p) ==
    LET e == SingleBody(t, p + 1)
    IN  IF At(t, p, "'") /\ At(t, e, "'") THEN Whole(p, e + 1) ELSE NoMatch

\* A literal, and one character of a class.
ReLit(t, p, lit) == IF At(t, p, lit) THEN Whole(p, p + Len(lit)) ELSE NoMatch
ReOneOf(t, p, S) == IF Has(t, p, In(S)) THEN Whole(p, p + 1) ELSE NoMatch

\* r'[+\-*/]?='
ReAssign(t, p) ==
    IF Has(t, p, In({"+", "-", "*", "/"})) /\ At(t, p + 1, "=") THEN Whole(p, p + 2)
    ELSE ReLit(t, p, "=")

\* r'==|!=|<=|>=|<|>'
ReCompare(t, p) ==
    IF \E op \in {"==", "!=", "<=", ">="} : At(t, p, op) THEN Whole(p, p + 2)
    ELSE ReOneOf(t, p, {"<", ">"})

\* r'\(([a-zA-Z_]\w*):\)'
ReQualified(t, p) ==
    LET e == Run(t, p + 1, In(Word))
    IN  IF At(t, p, "(") /\ Has(t, p + 1, In(IdentStart)) /\ At(t, e, ":)")
        THEN Whole(p, e + 2) ELSE NoMatch

\* r'@[a-zA-Z_]\w*'
ReDecorator(t, p) ==
    IF At(t, p, "@") /\ Has(t, p + 1, In(IdentStart))
    THEN Whole(p, Run(t, p + 1, In(Word))) ELSE NoMatch

\* r'[a-zA-Z_]\w*'
ReName(t, p) ==
    IF Has(t, p, In(IdentStart)) THEN Whole(p, Run(t, p, In(Word))) ELSE NoMatch

----------------------------------------------------------------------------
(* verse.py 148-174: the regexes of the other states.                       *)

\* r'[^<#]+'
ReCommentContent(t, p) ==
    LET e == Run(t, p, NotIn({"<", "#"})) IN IF e > p THEN Whole(p, e) ELSE NoMatch

\* r'[^"\\{<]+'
ReStringContent(t, p) ==
    LET e == Run(t, p, NotIn({"\"", "\\", "{", "<"}))
    IN  IF e > p THEN Whole(p, e) ELSE NoMatch

----------------------------------------------------------------------------
(* verse.py 78-175: VerseLexer.tokens.  A rule is (regex, action, new       *)
(* state): the action is one token kind for the whole match, or bygroups    *)
(* with one kind per group; the new state is a state to push, '#push',      *)
(* '#pop', or none.  A table is written for a text t and a cursor p: the    *)
(* field m of a rule is the match of its regex at p.                        *)

None == "none"
Rule(m, kind, new) == [m |-> m, bygroups |-> FALSE, kinds |-> <<kind>>, new |-> new]
Grouped(m, kinds, new) == [m |-> m, bygroups |-> TRUE, kinds |-> kinds, new |-> new]

root_whitespace(t, p) == << Rule(ReWhitespace(t, p), "Whitespace", None) >>

root_comments(t, p) ==
    << Rule(ReCommentSingle(t, p), "Comment.Single", None),
       Rule(ReLit(t, p, "<#"), "Comment.Multiline", "multiline-comment") >>

root_using(t, p) ==
    << Grouped(ReUsing(t, p), <<"Keyword.Namespace", "Whitespace", "Punctuation">>,
               "using-block") >>

root_specifiers(t, p) == << Rule(ReSpecifier(t, p), "Name.Decorator", None) >>

root_data_structure(t, p) ==
    << Grouped(ReDataStructure(t, p), <<"Keyword", "Whitespace", "Name.Class">>, None) >>

root_function(t, p) ==
    << Grouped(ReFunction(t, p), <<"Name.Function", "Whitespace", "Name.Decorator",
                                   "Whitespace", "Punctuation">>, None) >>

root_keywords(t, p) ==
    << Rule(Words(t, p, block_keywords), "Keyword", None),
       Rule(Words(t, p, data_structure_keywords), "Keyword", None),
       Rule(Words(t, p, decl_keywords), "Keyword.Declaration", None),
       Rule(Words(t, p, type_keywords), "Keyword.Type", None),
       Rule(Words(t, p, reserved_words), "Keyword.Reserved", None),
       Rule(Words(t, p, logical_operators), "Operator.Word", None) >>

root_boolean(t, p) == << Rule(ReBoolean(t, p), "Keyword.Constant", None) >>

\* A faulty variant: the integer rule listed first.
root_numeric_IntegerFirst(t, p) ==
    << Rule(ReInteger(t, p), "Number.Integer", None),
       Rule(ReBin(t, p), "Number.Bin", None),
       Rule(ReOct(t, p), "Number.Oct", None),
       Rule(ReHex(t, p), "Number.Hex", None),
       Rule(ReFloatDot(t, p), "Number.Float", None),
       Rule(ReFloatLeadingDot(t, p), "Number.Float", None),
       Rule(ReFloatExp(t, p), "Number.Float", None) >>

root_numeric(t, p) ==
    << Rule(ReBin(t, p), "Number.Bin", None),
       Rule(ReOct(t, p), "Number.Oct", None),
       Rule(ReHex(t, p), "Number.Hex", None),
       Rule(ReFloatDot(t, p), "Number.Float", None),
       Rule(ReFloatLeadingDot(t, p), "Number.Float", None),
       Rule(ReFloatExp(t, p), "Number.Float", None),
       Rule(ReInteger(t, p), "Number.Integer", None) >>

root_strings(t, p) ==
    << Rule(ReLit(t, p, "\""), "String.Double", "string-double"),
       Rule(ReStringSingle(t, p), "String.Single", None) >>

root_operators(t, p) ==
    << Rule(ReLit(t, p, ":="), "Operator", None),
       Rule(ReLit(t, p, "=>"), "Operator", None),
       Rule(ReLit(t, p, "->"), "Operator", None),
       Rule(ReLit(t, p, ".."), "Operator", None),
       Rule(ReAssign(t, p), "Operator", None),
       Rule(ReCompare(t, p), "Operator", None),
       Rule(ReOneOf(t, p, {"+", "-", "*", "/", "%"}), "Operator", None),
       Rule(ReOneOf(t, p, {"?", ":"}), "Operator", None) >>

\* A faulty variant: punctuation that pops the current state.
root_punctuation_Pops(t, p) ==
    << Rule(ReOneOf(t, p, {"{", "}", "[", "]", "(", ")", ",", ";", "."}),
            "Punctuation", "#pop") >>

root_punctuation(t, p) ==
    << Rule(ReOneOf(t, p, {"{", "}", "[", "]", "(", ")", ",", ";", "."}),
            "Punctuation", None) >>

root_qualified(t, p) == << Rule(ReQualified(t, p), "Name.Builtin.Pseudo", None) >>

root_decorators(t, p) == << Rule(ReDecorator(t, p), "Name.Decorator", None) >>

root_identifiers(t, p) == << Rule(ReName(t, p), "Name", None) >>

\* A faulty variant: the keyword rules listed before the declaration rules.
root_KeywordsFirst(t, p) ==
    root_whitespace(t, p) \o root_comments(t, p) \o root_using(t, p)
    \o root_specifiers(t, p) \o root_keywords(t, p) \o root_data_structure(t, p)
    \o root_function(t, p) \o root_boolean(t, p) \o root_numeric(t, p)
    \o root_strings(t, p) \o root_operators(t, p) \o root_punctuation(t, p)
    \o root_qualified(t, p) \o root_decorators(t, p) \o root_identifiers(t, p)

root(t, p) ==
    root_whitespace(t, p) \o root_comments(t, p) \o root_using(t, p)
    \o root_specifiers(t, p) \o root_data_structure(t, p) \o root_function(t, p)
    \o root_keywords(t, p) \o root_boolean(t, p) \o root_numeric(t, p)
    \o root_strings(t, p) \o root_operators(t, p) \o root_punctuation(t, p)
    \o root_qualified(t, p) \o root_decorators(t, p) \o root_identifiers(t, p)

\* A faulty variant: a nested '<#' that pushes nothing.
multiline_comment_NoPush(t, p) ==
    << Rule(ReLit(t, p, "<#"), "Comment.Multiline", None),
       Rule(ReLit(t, p, "#>"), "Comment.Multiline", "#pop"),
       Rule(ReCommentContent(t, p), "Comment.Multiline", None),
       Rule(ReOneOf(t, p, {"<", "#"}), "Comment.Multiline", None) >>

multiline_comment(t, p) ==
    << Rule(ReLit(t, p, "<#"), "Comment.Multiline", "#push"),
       Rule(ReLit(t, p, "#>"), "Comment.Multiline", "#pop"),
       Rule(ReCommentContent(t, p), "Comment.Multiline", None),
       Rule(ReOneOf(t, p, {"<", "#"}), "Comment.Multiline", None) >>

\* A faulty variant: a '{' in the list opens a nested list.
using_block_Nests(t, p) ==
    << Rule(ReWhitespace(t, p), "Whitespace", None),
       Rule(ReLit(t, p, "/"), "Punctuation", None),
       Rule(ReName(t, p), "Name.Namespace", None),
       Rule(ReLit(t, p, "."), "Punctuation", None),
       Rule(ReLit(t, p, ","), "Punctuation", None),
       Rule(ReLit(t, p, "{"), "Punctuation", "#push"),
       Rule(ReLit(t, p, "}"), "Punctuation", "#pop") >>

\* A faulty variant: a '}' that pops nothing.
using_block_NoPop(t, p) ==
    << Rule(ReWhitespace(t, p), "Whitespace", None),
       Rule(ReLit(t, p, "/"), "Punctuation", None),
       Rule(ReName(t, p), "Name.Namespace", None),
       Rule(ReLit(t, p, "."), "Punctuation", None),
       Rule(ReLit(t, p, ","), "Punctuation", None),
       Rule(ReLit(t, p, "}"), "Punctuation", None) >>

\* A faulty variant: the path separator lexed as an operator.
using_block_SlashOperator(t, p) ==
    << Rule(ReWhitespace(t, p), "Whitespace", None),
       Rule(ReLit(t, p, "/"), "Operator", None),
       Rule(ReName(t, p), "Name.Namespace", None),
       Rule(ReLit(t, p, "."), "Punctuation", None),
       Rule(ReLit(t, p, ","), "Punctuation", None),
       Rule(ReLit(t, p, "}"), "Punctuation", "#pop") >>

using_block(t, p) ==
    << Rule(ReWhitespace(t, p), "Whitespace", None),
       Rule(ReLit(t, p, "/"), "Punctuation", None),
       Rule(ReName(t, p), "Name.Namespace", None),
       Rule(ReLit(t, p, "."), "Punctuation", None),
       Rule(ReLit(t, p, ","), "Punctuation", None),
       Rule(ReLit(t, p, "}"), "Punctuation", "#pop") >>

\* A faulty variant: a backslash and the character after it are an escape.
string_double_Escapes(t, p) ==
    << Rule(ReLit(t, p, "<#"), "Comment.Multiline", "multiline-comment"),
       Rule(ReLit(t, p, "{"), "String.Interpol", "interpolation"),
       Rule(IF At(t, p, "\\") /\ p + 1 <= Len(t) THEN Whole(p, p + 2) ELSE NoMatch,
            "String.Escape", None),
       Rule(ReStringContent(t, p), "String.Double", None),
       Rule(ReLit(t, p, "\""), "String.Double", "#pop") >>

\* A faulty variant: the interpolated expression is lexed in a second root.
string_double_InterpolationIsRoot(t, p) ==
    << Rule(ReLit(t, p, "<#"), "Comment.Multiline", "multiline-comment"),
       Rule(ReLit(t, p, "{"), "String.Interpol", "root"),
       Rule(ReStringContent(t, p), "String.Double", None),
       Rule(ReLit(t, p, "\""), "String.Double", "#pop") >>

string_double(t, p) ==
    << Rule(ReLit(t, p, "<#"), "Comment.Multiline", "multiline-comment"),
       Rule(ReLit(t, p, "{"), "String.Interpol", "interpolation"),
       Rule(ReStringContent(t, p), "String.Double", None),
       Rule(ReLit(t, p, "\""), "String.Double", "#pop") >>

\* A faulty variant: include('root') placed before the '}' rule.
\* A faulty variant: the braces of the interpolated expression are counted.
interpolation_CountsBraces(t, p) ==
    << Rule(ReLit(t, p, "}"), "String.Interpol", "#pop"),
       Rule(ReLit(t, p, "{"), "Punctuation", "#push") >> \o root(t, p)

interpolation_RootFirst(t, p) ==
    root(t, p) \o << Rule(ReLit(t, p, "}"), "String.Interpol", "#pop") >>

\* include('root') splices the rules of root in after the '}' rule.
interpolation(t, p) == << Rule(ReLit(t, p, "}"), "String.Interpol", "#pop") >> \o root(t, p)

States == {"root", "multiline-comment", "using-block", "string-double", "interpolation"}

\* The rules of a state, matched at p.
Tokens(state, t, p) ==
    CASE state = "root"              -> root(t, p)
      [] state = "multiline-comment" -> multiline_comment(t, p)
      [] state = "using-block"       -> using_block(t, p)
      [] state = "string-double"     -> string_double(t, p)
      [] state = "interpolation"     -> interpolation(t, p)

----------------------------------------------------------------------------
(* The scanning loop that drives the table (the host's RegexLexer): at the  *)
(* cursor, the first rule of the current state that matches emits its       *)
(* tokens, moves the cursor to the end of the match and changes the stack;  *)
(* when none matches, one character is consumed.                            *)

Top(stack) == stack[Len(stack)]

Token(kind, t, s, e) == [kind |-> kind, text |-> SubSeq(t, s, e - 1)]

\* The index of the first rule from i on that matched, 0 if none did.
RECURSIVE FirstMatch(_, _)
FirstMatch(rules, i) ==
    IF i > Len(rules) THEN 0
    ELSE IF rules[i].m # NoMatch THEN i
    ELSE FirstMatch(rules, i + 1)

\* bygroups: one token per group that took part with a non-empty text.
RECURSIVE ByGroups(_, _, _, _)
ByGroups(kinds, t, m, i) ==
    IF i > Len(kinds) THEN <<>>
    ELSE (IF m[i + 1][2] > m[i + 1][1]
          THEN << Token(kinds[i], t, m[i + 1][1], m[i + 1][2]) >>
          ELSE <<>>)
         \o ByGroups(kinds, t, m, i + 1)

\* What the rule emits for its match m.
Emit(rule, t, m) ==
    IF rule.bygroups THEN ByGroups(rule.kinds, t, m, 1)
    ELSE << Token(rule.kinds[1], t, m[1][1], m[1][2]) >>

\* The stack after the rule's transition; '#pop' keeps the bottom state.
NewStack(stack, new) ==
    CASE new = None    -> stack
      [] new = "#pop"  -> IF Len(stack) <= 1 THEN SubSeq(stack, 1, 1)
                          ELSE SubSeq(stack, 1, Len(stack) - 1)
      [] new = "#push" -> Append(stack, Top(stack))
      [] OTHER         -> Append(stack, new)

\* What rule i of the state's rules does at cursor p (i = 0: no rule matched,
\* and the fallback acts): the tokens emitted, the new cursor and the new
\* stack.  When no rule matches, a newline resets the stack to root and any
\* other character is emitted alone as an error token.
Fire(rules, i, t, p, stack) ==
    IF i > 0
    THEN [fired |-> i, new |-> rules[i].new,
          out |-> Emit(rules[i], t, rules[i].m),
          pos |-> MEnd(rules[i].m),
          stack |-> NewStack(stack, rules[i].new)]
    ELSE [fired |-> 0, new |-> None,
          out |-> << Token(IF Ch(t, p) = "\n" THEN "Whitespace" ELSE "Error",
                           t, p, p + 1) >>,
          pos |-> p + 1,
          stack |-> IF Ch(t, p) = "\n" THEN <<"root">> ELSE stack]

\* One turn of the loop at cursor p: the rules of the current state are
\* matched once, and the first that matched fires.
Turn(t, p, stack) ==
    CHOOSE r \in UNION { { Fire(rules, i, t, p, stack) : i \in {FirstMatch(rules, 1)} } :
                         rules \in {Tokens(Top(stack), t, p)} } : TRUE

AtEnd == pos = Len(text) + 1

\* A turn in which a rule matches.
MatchRule(r) ==
    /\ r.fired > 0
    /\ tokens' = tokens \o r.out
    /\ pos' = r.pos
    /\ statestack' = r.stack
    /\ UNCHANGED <<text, pass, first, score, cliVars>>

\* A turn in which no rule matches: one character is consumed.
Fallback(r) ==
    /\ r.fired = 0
    /\ tokens' = tokens \o r.out
    /\ pos' = r.pos
    /\ statestack' = r.stack
    /\ UNCHANGED <<text, pass, first, score, cliVars>>

\* The loop runs until the text is exhausted.
Scan ==
    /\ ~AtEnd
    /\ \E r \in {Turn(text, pos, statestack)} : MatchRule(r) \/ Fallback(r)

\* The text spans of the tokens, concatenated in emission order.
RECURSIVE Concat(_)
Concat(toks) == IF toks = <<>> THEN "" ELSE Head(toks).text \o Concat(Tail(toks))

\* A second lex, of the concatenated spans of the first.
Relex ==
    /\ pass = 1
    /\ AtEnd
    /\ text' = Concat(tokens)
    /\ first' = tokens
    /\ tokens' = <<>>
    /\ pos' = 1
    /\ statestack' = <<"root">>
    /\ pass' = 2
    /\ UNCHANGED <<score, cliVars>>

----------------------------------------------------------------------------
(* verse.py 177-195: analyse_text.  re.search without flags ('.' stops at   *)
(* a newline), except the last, which has DOTALL.  The score is kept in     *)
(* tenths: 0.3 is 3 and the clamp 1.0 is 10.                                *)

\* r'\busing\s*\{.*\}'
HasUsingBlock(t) ==
    \E p \in 1 .. Len(t) :
       /\ Boundary(t, p) /\ At(t, p, "using")
       /\ LET w == Run(t, p + 5, In(Space))
              l == Run(t, w + 1, NotIn({"\n"}))
          IN  At(t, w, "{") /\ \E j \in w + 1 .. l - 1 : At(t, j, "}")

\* r':='
HasDefinition(t) == \E p \in 1 .. Len(t) : At(t, p, ":=")

\* r'<(public|private|override|suspends|decides)>'
HasSpecifier(t) ==
    \E p \in 1 .. Len(t) :
       \E w \in {"public", "private", "override", "suspends", "decides"} :
          At(t, p, "<" \o w \o ">")

\* r'\b(spawn|race|sync)\s*[:{]'
HasConcurrency(t) ==
    \E p \in 1 .. Len(t) :
       /\ Boundary(t, p)
       /\ \E w \in {"spawn", "race", "sync"} :
             /\ At(t, p, w)
             /\ Has(t, Run(t, p + Len(w), In(Space)), In({":", "{"}))

\* r'\bclass\s*\(.*\)\s*:'
HasClassDeclaration(t) ==
    \E p \in 1 .. Len(t) :
       /\ Boundary(t, p) /\ At(t, p, "class")
       /\ LET w == Run(t, p + 5, In(Space))
              l == Run(t, w + 1, NotIn({"\n"}))
          IN  /\ At(t, w, "(")
              /\ \E j \in w + 1 .. l - 1 :
                    At(t, j, ")") /\ At(t, Run(t, j + 1, In(Space)), ":")

\* r'<#.*#>' with re.DOTALL
HasBlockComment(t) ==
    \E i \in 1 .. Len(t) : At(t, i, "<#") /\ \E j \in i + 2 .. Len(t) : At(t, j, "#>")

Min(a, b) == IF a <= b THEN a ELSE b

\* A faulty variant: the sum returned unclamped.
analyse_text_Unclamped(t) ==
    LET s0 == 0
        s1 == s0 + (IF HasUsingBlock(t) THEN 3 ELSE 0)
        s2 == s1 + (IF HasDefinition(t) THEN 2 ELSE 0)
        s3 == s2 + (IF HasSpecifier(t) THEN 3 ELSE 0)
        s4 == s3 + (IF HasConcurrency(t) THEN 2 ELSE 0)
        s5 == s4 + (IF HasClassDeclaration(t) THEN 2 ELSE 0)
        s6 == s5 + (IF HasBlockComment(t) THEN 1 ELSE 0)
    IN  s6

analyse_text(t) ==
    LET s0 == 0
        s1 == s0 + (IF HasUsingBlock(t) THEN 3 ELSE 0)
        s2 == s1 + (IF HasDefinition(t) THEN 2 ELSE 0)
        s3 == s2 + (IF HasSpecifier(t) THEN 3 ELSE 0)
        s4 == s3 + (IF HasConcurrency(t) THEN 2 ELSE 0)
        s5 == s4 + (IF HasClassDeclaration(t) THEN 2 ELSE 0)
        s6 == s5 + (IF HasBlockComment(t) THEN 1 ELSE 0)
    IN  Min(s6, 10)

\* The host calls the scorer on a text.
AnalyseText ==
    /\ score = -1
    /\ score' = analyse_text(text)
    /\ UNCHANGED <<text, pos, statestack, tokens, pass, first, cliVars>>

----------------------------------------------------------------------------
(* The debug command line, test_lexer.py.  main reads its arguments, finds  *)
(* and reads the markdown file, extracts its code blocks, selects the ones  *)
(* asked for and prints the tokens of each.  A file system is a set of      *)
(* <<directory, name, content>> triples, one content per directory and      *)
(* name; what is printed is kept as one tag per message.                    *)

\* Python's None; no argument is this string.
NoneValue == "<None>"

DefaultFile == "VerseSyntaxValidation.md"

\* search_paths, in order: the name itself (the current directory), ../docs,
\* .. and the directory of the script.
search_paths == <<"cwd", "docs", "parent", "script">>

\* os.path.isfile
isfile(fs, dir, name) == \E f \in fs : f[1] = dir /\ f[2] = name

\* The search path at which the file is first found; 0 when it is at none
\* (find_markdown_file raises FileNotFoundError).
RECURSIVE FirstPath(_, _, _)
FirstPath(fs, filename, k) ==
    IF k > Len(search_paths) THEN 0
    ELSE IF isfile(fs, search_paths[k], filename) THEN k
    ELSE FirstPath(fs, filename, k + 1)

find_markdown_file(fs, filename) == FirstPath(fs, filename, 1)

\* f.read() of the file at search path k.
ReadFile(fs, filename, k) ==
    (CHOOSE f \in fs : f[1] = search_paths[k] /\ f[2] = filename)[3]

\* The first index from p on at which lit stands in t, 0 if there is none.
RECURSIVE Find(_, _, _)
Find(t, p, lit) ==
    IF p + Len(lit) - 1 > Len(t) THEN 0
    ELSE IF At(t, p, lit) THEN p
    ELSE Find(t, p + 1, lit)

\* The code fence.  A string of this notation cannot hold a backquote, so the
\* fence of three backquotes is written as three apostrophes in contents.
Fence == "'''"

\* r'<!--\s*(\d+\w?)\s*-->\s*```verse\n(.*?)```' with re.DOTALL, matched at p:
\* <<end of the match, id, code>>, or NoMatch.  The id is a run of digits and
\* at most one more word character.
ReBlock(t, p) ==
    LET a == Run(t, p + 4, In(Space))
        d == Run(t, a, In(Digit))
        e == IF Has(t, d, In(Word)) THEN d + 1 ELSE d
        b == Run(t, e, In(Space))
        c == Run(t, b + 3, In(Space))
        q == Find(t, c + 9, Fence)
    IN  IF /\ At(t, p, "<!--")
           /\ d > a
           /\ At(t, b, "-->")
           /\ At(t, c, Fence \o "verse\n")
           /\ q > 0
        THEN <<q + 3, SubSeq(t, a, e - 1), SubSeq(t, c + 9, q - 1)>>
        ELSE NoMatch

\* re.findall: the matches from left to right, none overlapping another.
RECURSIVE FindAll(_, _)
FindAll(t, p) ==
    IF p > Len(t) THEN <<>>
    ELSE IF ReBlock(t, p) # NoMatch
         THEN << <<ReBlock(t, p)[2], ReBlock(t, p)[3]>> >> \o FindAll(t, ReBlock(t, p)[1])
         ELSE FindAll(t, p + 1)

extract_code_blocks(c) == FindAll(c, 1)

UpperLetters == "ABCDEFGHIJKLMNOPQRSTUVWXYZ"
LowerLetters == "abcdefghijklmnopqrstuvwxyz"

\* str.lower()
RECURSIVE lower(_)
lower(str) ==
    IF str = "" THEN ""
    ELSE LET c == SubSeq(str, 1, 1)
             k == Find(UpperLetters, 1, c)
         IN  (IF k > 0 THEN SubSeq(LowerLetters, k, k) ELSE c)
             \o lower(SubSeq(str, 2, Len(str)))

\* [(bid, code) for bid, code in blocks if bid.lower() == block_id.lower()]
RECURSIVE Select(_, _)
Select(bs, id) ==
    IF bs = <<>> THEN <<>>
    ELSE (IF lower(Head(bs)[1]) = lower(id) THEN << Head(bs) >> ELSE <<>>)
         \o Select(Tail(bs), id)

\* sys.exit(code) after the messages msgs.
Exit(msgs, code) ==
    /\ printed' = printed \o msgs
    /\ exit_code' = code
    /\ pc' = "exit"

\* No arguments: help, exit 0.
HelpNoArguments ==
    /\ pc = "main"
    /\ Len(argv) = 0
    /\ Exit(<<"help">>, 0)
    /\ UNCHANGED <<argv, argi, block_id, markdown_file, files, content, blocks,
                   blocks_to_test, lexVars>>

\* Arguments: the loop over them starts.
BeginArguments ==
    /\ pc = "main"
    /\ Len(argv) > 0
    /\ block_id' = NoneValue
    /\ markdown_file' = DefaultFile
    /\ argi' = 1
    /\ pc' = "args"
    /\ UNCHANGED <<argv, files, content, blocks, blocks_to_test, printed,
                   exit_code, lexVars>>

InArguments == pc = "args" /\ argi <= Len(argv)

\* -h, --help: help, exit 0.
ArgHelp ==
    /\ InArguments
    /\ argv[argi] \in {"-h", "--help"}
    /\ Exit(<<"help">>, 0)
    /\ UNCHANGED <<argv, argi, block_id, markdown_file, files, content, blocks,
                   blocks_to_test, lexVars>>

\* -f, --file with the file name after it.
ArgFile ==
    /\ InArguments
    /\ argv[argi] \in {"-f", "--file"}
    /\ argi + 1 <= Len(argv)
    /\ markdown_file' = argv[argi + 1]
    /\ argi' = argi + 2
    /\ UNCHANGED <<argv, block_id, files, content, blocks, blocks_to_test,
                   printed, pc, exit_code, lexVars>>

\* A faulty variant: a -f, --file without a file name is skipped.
ArgFileNoName_Skipped ==
    /\ InArguments
    /\ argv[argi] \in {"-f", "--file"}
    /\ argi + 1 > Len(argv)
    /\ argi' = argi + 1
    /\ UNCHANGED <<argv, block_id, markdown_file, files, content, blocks,
                   blocks_to_test, printed, pc, exit_code, lexVars>>

\* -f, --file as the last argument: exit 1.
ArgFileNoName ==
    /\ InArguments
    /\ argv[argi] \in {"-f", "--file"}
    /\ argi + 1 > Len(argv)
    /\ Exit(<<"Error: --file requires an argument", "help">>, 1)
    /\ UNCHANGED <<argv, argi, block_id, markdown_file, files, content, blocks,
                   blocks_to_test, lexVars>>

\* Any other argument that starts with '-': exit 1.
ArgUnknown ==
    /\ InArguments
    /\ argv[argi] \notin {"-h", "--help", "-f", "--file"}
    /\ At(argv[argi], 1, "-")
    /\ Exit(<<"Error: Unknown option", "help">>, 1)
    /\ UNCHANGED <<argv, argi, block_id, markdown_file, files, content, blocks,
                   blocks_to_test, lexVars>>

\* Any other argument is the block asked for.
ArgBlock ==
    /\ InArguments
    /\ argv[argi] \notin {"-h", "--help", "-f", "--file"}
    /\ ~At(argv[argi], 1, "-")
    /\ block_id' = argv[argi]
    /\ argi' = argi + 1
    /\ UNCHANGED <<argv, markdown_file, files, content, blocks, blocks_to_test,
                   printed, pc, exit_code, lexVars>>

\* After the last argument: no block asked for is all of them.
EndArguments ==
    /\ pc = "args"
    /\ argi > Len(argv)
    /\ block_id' = IF block_id = NoneValue THEN "all" ELSE block_id
    /\ pc' = "read"
    /\ UNCHANGED <<argv, argi, markdown_file, files, content, blocks,
                   blocks_to_test, printed, exit_code, lexVars>>

\* The file is found and read.
FileRead ==
    /\ pc = "read"
    /\ find_markdown_file(files, markdown_file) > 0
    /\ content' = ReadFile(files, markdown_file, find_markdown_file(files, markdown_file))
    /\ pc' = "extract"
    /\ UNCHANGED <<argv, argi, block_id, markdown_file, files, blocks,
                   blocks_to_test, printed, exit_code, lexVars>>

\* The file is at none of the search paths: exit 1.
FileNotFound ==
    /\ pc = "read"
    /\ find_markdown_file(files, markdown_file) = 0
    /\ Exit(<<"Error: Markdown file not found">>, 1)
    /\ UNCHANGED <<argv, argi, block_id, markdown_file, files, content, blocks,
                   blocks_to_test, lexVars>>

\* The code blocks are extracted.
BlocksFound ==
    /\ pc = "extract"
    /\ extract_code_blocks(content) # <<>>
    /\ blocks' = extract_code_blocks(content)
    /\ pc' = "filter"
    /\ UNCHANGED <<argv, argi, block_id, markdown_file, files, content,
                   blocks_to_test, printed, exit_code, lexVars>>

\* The content has no code block: exit 1.
NoBlocks ==
    /\ pc = "extract"
    /\ extract_code_blocks(content) = <<>>
    /\ blocks' = <<>>
    /\ Exit(<<"Error: No code blocks found">>, 1)
    /\ UNCHANGED <<argv, argi, block_id, markdown_file, files, content,
                   blocks_to_test, lexVars>>

\* The blocks asked for are selected.
BlocksSelected ==
    /\ pc = "filter"
    /\ blocks_to_test' = IF lower(block_id) = "all" THEN blocks
                         ELSE Select(blocks, block_id)
    /\ blocks_to_test' # <<>>
    /\ pc' = "test"
    /\ UNCHANGED <<argv, argi, block_id, markdown_file, files, content, blocks,
                   printed, exit_code, lexVars>>

\* No block has the id asked for: exit 1.
BlockNotFound ==
    /\ pc = "filter"
    /\ lower(block_id) # "all"
    /\ Select(blocks, block_id) = <<>>
    /\ blocks_to_test' = <<>>
    /\ Exit(<<"Error: Block not found", "Available blocks">>, 1)
    /\ UNCHANGED <<argv, argi, block_id, markdown_file, files, content, blocks,
                   lexVars>>

\* The tokens of each selected block are printed (an exception raised while
\* a block is lexed is caught and printed); main returns, and the exit code
\* is 0.
TestBlocks ==
    /\ pc = "test"
    /\ Exit([k \in 1 .. Len(blocks_to_test) |-> "CODE BLOCK"] \o <<"Tested">>, 0)
    /\ UNCHANGED <<argv, argi, block_id, markdown_file, files, content, blocks,
                   blocks_to_test, lexVars>>

main ==
    \/ HelpNoArguments
    \/ BeginArguments
    \/ ArgHelp
    \/ ArgFile
    \/ ArgFileNoName
    \/ ArgUnknown
    \/ ArgBlock
    \/ EndArguments
    \/ FileRead
    \/ FileNotFound
    \/ BlocksFound
    \/ NoBlocks
    \/ BlocksSelected
    \/ BlockNotFound
    \/ TestBlocks

\* The command line is not in use.
CliIdle ==
    /\ argv = <<>>
    /\ argi = 1
    /\ block_id = NoneValue
    /\ markdown_file = DefaultFile
    /\ files = {}
    /\ content = ""
    /\ blocks = <<>>
    /\ blocks_to_test = <<>>
    /\ printed = <<>>
    /\ pc = "idle"
    /\ exit_code = -1

\* The lexer is not in use.
LexIdle ==
    /\ text = ""
    /\ pos = 1
    /\ statestack = <<"root">>
    /\ tokens = <<>>
    /\ pass = 1
    /\ first = <<>>
    /\ score = -1

----------------------------------------------------------------------------
(* The inputs: every concatenation of at most MaxFrags fragments of one     *)
(* family, and the sample texts.                                            *)

MaxFrags == 3

RECURSIVE Concats(_, _)
Concats(F, n) ==
    IF n = 0 THEN {""} ELSE {""} \cup {f \o s : f \in F, s \in Concats(F, n - 1)}

Families == {
    {"<#", "#>", "<", "#", "c", "\"", "{", "}"},
    {"\"", "{", "}", "s", "\\", "<#", "#>", "x "},
    {"using", " ", "{", "}", "a", ".", ",", "/"},
    {"class", " ", "Foo", "(", "<", ">", "if", "1"},
    {"0", "1", "x", "b", ".", "e", "+", "_"},
    {":", "=", "<", ">", "-", ".", "!", "+"} }

Samples == {
    "<# outer <# inner #> still outer #>",
    "\"<# outer <# inner #> still outer #>\"",
    "\"{<# outer <# inner #> still outer #>}\"",
    "\"a{x}b\"",
    "using {a.b, c}",
    "using {$}",
    "class Foo",
    "0x1A", "0b101", "0o17", "3.14", "1e10", "3.", "42",
    "(super:)", "x.(super:)f()", "\"{(a:)}\"",
    "a *= b", "a /= b", "a == b",
    "var x", "set x = 1", "int(", "return(x)", "not (a)", "loop<a>(", "case (x):",
    "using a", "using", "using{a}", "using {a{b}c}", "using(a)", "using <t>(", "\"a\\\"b\"",
    "\"{a{b}c}\"", "\"{f({x})}\"" }

\* Texts in which every construct that is opened is closed: a block comment,
\* a double-quoted string and an interpolation in a string wrapped around
\* such a text, and such a text with a leaf before or after it, nested at
\* most MaxNest deep.
MaxNest == 3

Leaves == {"a", "using {a.b}"}

Closed(b) == {"<#" \o b \o "#>", "\"" \o b \o "\"", "\"{" \o b \o "}\""}

RECURSIVE Nested(_)
Nested(n) ==
    IF n = 0 THEN {""} \cup Leaves
    ELSE LET inner == Nested(n - 1)
         IN  inner \cup UNION {Closed(b) : b \in inner}
                   \cup {b \o l : b \in inner, l \in Leaves}
                   \cup {l \o b : b \in inner, l \in Leaves}

WellFormed == Nested(MaxNest)

Inputs == Samples \cup WellFormed \cup UNION {Concats(F, MaxFrags) : F \in Families}

Init ==
    /\ text \in Inputs
    /\ pos = 1
    /\ statestack = <<"root">>
    /\ tokens = <<>>
    /\ pass = 1
    /\ first = <<>>
    /\ score = -1
    /\ CliIdle

Next == Scan

Spec == Init /\ [][Next]_vars

\* The texts of the runs followed to their end: openers, closers and lone
\* characters of every state, at most MaxLiveFrags of them in a row.
MaxLiveFrags == 2

LiveFrags == {"<#", "#>", "<", "#", "\"", "{", "}", "using {", "a", "\\", " "}

LiveInputs == Concats(LiveFrags, MaxLiveFrags)

InitLive ==
    /\ text \in LiveInputs
    /\ pos = 1
    /\ statestack = <<"root">>
    /\ tokens = <<>>
    /\ pass = 1
    /\ first = <<>>
    /\ score = -1
    /\ CliIdle

\* The loop is sequential code: while the text is not exhausted it takes its
\* next turn.
SpecLive == InitLive /\ [][Next]_vars /\ WF_vars(Scan)

NextRelex == Scan \/ Relex

SpecRelex == Init /\ [][NextRelex]_vars

\* The texts given to the scorer: signatures and what may stand between them.
ScoreFrags == {"using{}", ":=", "<public>", "sync :", "class(a):", "<##>", "x", "\n"}

ScoreSamples == {
    "using{}:=<public>sync:class():<##>",
    "using { a }\nx := 1\nf<public>():void=\n    race{}\nc := class(b):\n<# c #>",
    "<decides>spawn{}class (a) :",
    "using\n{}}",
    "using {\n}",
    "class(\n):",
    "<#\n#>" }

ScoreInputs == ScoreSamples \cup Concats(ScoreFrags, MaxFrags)

InitScore ==
    /\ text \in ScoreInputs
    /\ pos = 1
    /\ statestack = <<"root">>
    /\ tokens = <<>>
    /\ pass = 1
    /\ first = <<>>
    /\ score = -1
    /\ CliIdle

NextScore == AnalyseText

SpecScore == InitScore /\ [][NextScore]_vars

\* The command lines: at most MaxArgs arguments, each a flag, a block id or a
\* file name.
MaxArgs == 3

Args == {"-h", "--help", "-f", "--file", "-x", "ALL", "21B", "99", "doc.md"}

ArgLists == UNION {[1 .. n -> Args] : n \in 0 .. MaxArgs}

\* Markdown contents: two blocks; a fence without an id comment; a fence of
\* another language; an id that does not start with a digit.
DocGood ==
    "<!-- 01 -->\n" \o Fence \o "verse\nx := 1\n" \o Fence
    \o "\ntext\n<!--21b-->" \o Fence \o "verse\n<# c #>" \o Fence

DocNoId == "# Title\n" \o Fence \o "verse\nx\n" \o Fence \o "\n"

DocOtherLanguage == "<!-- 01 -->\n" \o Fence \o "python\nx\n" \o Fence

DocBadId ==
    "<!-- b1 -->\n" \o Fence \o "verse\nx\n" \o Fence
    \o "<!-- 123 -->\n" \o Fence \o " verse\n" \o Fence

\* File systems: the default file alone; nothing; the files in directories
\* searched later; a file that hides another of the same name.
FileSystems ==
    { { <<"cwd", DefaultFile, DocGood>> },
      {},
      { <<"docs", DefaultFile, DocNoId>>,
        <<"parent", "doc.md", DocGood>>, <<"script", "doc.md", DocOtherLanguage>> },
      { <<"cwd", DefaultFile, DocBadId>>, <<"docs", DefaultFile, DocGood>>,
        <<"script", "doc.md", DocGood>> } }

InitCli ==
    /\ LexIdle
    /\ argv \in ArgLists
    /\ files \in FileSystems
    /\ argi = 1
    /\ block_id = NoneValue
    /\ markdown_file = DefaultFile
    /\ content = ""
    /\ blocks = <<>>
    /\ blocks_to_test = <<>>
    /\ printed = <<>>
    /\ pc = "main"
    /\ exit_code = -1

NextCli == main

SpecCli == InitCli /\ [][NextCli]_vars

----------------------------------------------------------------------------
(* What is checked of the lexer.                                            *)

T(kind, txt) == [kind |-> kind, text |-> txt]

Front(stack) == SubSeq(stack, 1, Len(stack) - 1)

\* The tokens added by the step.
Emitted == SubSeq(tokens', Len(tokens) + 1, Len(tokens'))

\* The current state reads the rules of root.
InRootRules == Top(statestack) \in {"root", "interpolation"}

\* Adjacent tokens of one kind merged into one span.
RECURSIVE Coalesce(_)
Coalesce(toks) ==
    IF Len(toks) <= 1 THEN toks
    ELSE LET rest == Coalesce(Tail(toks))
         IN  IF Head(toks).kind = Head(rest).kind
             THEN << T(Head(toks).kind, Head(toks).text \o Head(rest).text) >> \o Tail(rest)
             ELSE << Head(toks) >> \o rest

HasKind(kind) == \E i \in 1 .. Len(tokens) : tokens[i].kind = kind

(* C1: the spans of the tokens emitted so far, concatenated in emission     *)
(* order, are exactly the text before the cursor; at the end of the lex     *)
(* they are the whole input text.                                           *)
C1_Coverage == Concat(tokens) = SubSeq(text, 1, pos - 1)

\* A finished lex in which a grouped rule and the fallback both emitted.
C1_Witness == AtEnd /\ HasKind("Keyword.Namespace") /\ HasKind("Error")

(* C2: the stack is never empty, its bottom is root, and the rule about to  *)
(* fire is a '#pop' rule only when a pushed state is on the stack.          *)
C2_RootNeverPopped ==
    /\ Len(statestack) >= 1
    /\ statestack[1] = "root"
    /\ (~AtEnd /\ Turn(text, pos, statestack).new = "#pop") => Len(statestack) >= 2

\* A '#pop' rule is about to take the stack back to root alone.
C2_Witness == ~AtEnd /\ Turn(text, pos, statestack).new = "#pop" /\ Len(statestack) = 2

\* The number of multiline-comment states on top of the stack.
RECURSIVE CommentDepth(_)
CommentDepth(stack) ==
    IF stack # <<>> /\ Top(stack) = "multiline-comment"
    THEN 1 + CommentDepth(Front(stack)) ELSE 0

\* '<#' tokens less '#>' tokens in the run of comment tokens that ends toks.
RECURSIVE OpenComments(_)
OpenComments(toks) ==
    IF toks = <<>> \/ toks[Len(toks)].kind # "Comment.Multiline" THEN 0
    ELSE OpenComments(Front(toks))
         + (CASE toks[Len(toks)].text = "<#" -> 1
              [] toks[Len(toks)].text = "#>" -> -1
              [] OTHER -> 0)

NestedComment == "<# outer <# inner #> still outer #>"

\* The stack holds one multiline-comment state per comment that is open, and
\* nothing is pushed above a comment but a comment.
C3_Depth ==
    /\ CommentDepth(statestack) = OpenComments(tokens)
    /\ \A i \in 1 .. Len(statestack) :
          statestack[i] = "multiline-comment" => i > Len(statestack) - CommentDepth(statestack)

\* The nested comment of the spec, alone, in a string and in an interpolation:
\* its spans once lexed, the stack back to root, and the comment state on top
\* from the opening '<#' until the last '#>' is consumed.
C3_SamplesWith(spans) ==
    /\ text = NestedComment =>
          /\ (pos > 1 /\ ~AtEnd) => CommentDepth(statestack) >= 1
          /\ AtEnd => /\ spans = << T("Comment.Multiline", NestedComment) >>
                      /\ statestack = <<"root">>
    /\ text = "\"" \o NestedComment \o "\"" =>
          /\ (pos > 2 /\ pos < Len(text)) =>
                /\ CommentDepth(statestack) >= 1
                /\ Front(statestack) \in {<<"root", "string-double">>,
                                          <<"root", "string-double", "multiline-comment">>}
          /\ pos = Len(text) => statestack = <<"root", "string-double">>
          /\ AtEnd => /\ spans = << T("String.Double", "\""),
                                    T("Comment.Multiline", NestedComment),
                                    T("String.Double", "\"") >>
                      /\ statestack = <<"root">>
    /\ text = "\"{" \o NestedComment \o "}\"" =>
          /\ (pos > 3 /\ pos < Len(text) - 1) => CommentDepth(statestack) >= 1
          /\ pos = Len(text) - 1 => statestack = <<"root", "string-double", "interpolation">>
          /\ AtEnd => /\ spans = << T("String.Double", "\""),
                                    T("String.Interpol", "{"),
                                    T("Comment.Multiline", NestedComment),
                                    T("String.Interpol", "}"),
                                    T("String.Double", "\"") >>
                      /\ statestack = <<"root">>

\* The comment is one unbroken run of comment tokens.
C3_Samples == C3_SamplesWith(Coalesce(tokens))

\* In a comment every token is a comment token, '<#' pushes one comment state,
\* '#>' pops one and nothing else changes the stack; '<#' enters a comment
\* from root, an interpolation and a string.
C3_Step ==
    /\ Top(statestack) = "multiline-comment" =>
          /\ \A i \in 1 .. Len(Emitted) : Emitted[i].kind = "Comment.Multiline"
          /\ statestack' = IF At(text, pos, "<#") THEN Append(statestack, "multiline-comment")
                           ELSE IF At(text, pos, "#>") THEN Front(statestack)
                           ELSE statestack
    /\ (Top(statestack) \in {"root", "interpolation", "string-double"} /\ At(text, pos, "<#")) =>
          /\ Emitted = << T("Comment.Multiline", "<#") >>
          /\ statestack' = Append(statestack, "multiline-comment")

(* C3: inside a block comment each '<#' pushes one multiline-comment state  *)
(* and each '#>' pops one, so that the stack is back at its pre-comment     *)
(* contents exactly when as many '#>' as '<#' have been read; the nested    *)
(* comment of the spec, entered from root, a string or an interpolation, is *)
(* an unbroken run of comment tokens whose spans together are the comment.  *)
C3_NestedComments == [](C3_Depth /\ C3_Samples) /\ [][C3_Step]_vars

\* The nested comment inside an interpolation, lexed to the end.
C3_Witness ==
    /\ AtEnd
    /\ text = "\"{" \o NestedComment \o "}\""
    /\ statestack = <<"root">>

\* C3 as stated: the nested comment is a single token, one span for all of it.
C3_SingleSpan == C3_Depth /\ C3_SamplesWith(tokens)

(* C4: a lex starts with the stack [root], and at the end of a well-formed  *)
(* input the stack is [root] again.                                         *)
C4_BackToRoot ==
    /\ pos = 1 => statestack = <<"root">>
    /\ (AtEnd /\ text \in WellFormed) => statestack = <<"root">>

\* A well-formed text with an interpolation and a namespace list, lexed.
C4_Witness ==
    /\ AtEnd
    /\ text \in WellFormed
    /\ HasKind("String.Interpol") /\ HasKind("Keyword.Namespace") /\ HasKind("Comment.Multiline")

\* The spec's interpolated string, lexed.
C5_Sample ==
    (text = "\"a{x}b\"" /\ AtEnd) =>
        /\ tokens = << T("String.Double", "\""), T("String.Double", "a"),
                       T("String.Interpol", "{"), T("Name", "x"),
                       T("String.Interpol", "}"), T("String.Double", "b"),
                       T("String.Double", "\"") >>
        /\ statestack = <<"root">>

\* In a string '{' opens an interpolation and '"' closes the string; in an
\* interpolation '}' goes back to the string and anything else is lexed as
\* root would lex it.
C5_Step ==
    /\ (Top(statestack) = "string-double" /\ At(text, pos, "{")) =>
          /\ Emitted = << T("String.Interpol", "{") >>
          /\ statestack' = Append(statestack, "interpolation")
    /\ (Top(statestack) = "string-double" /\ At(text, pos, "\"")) =>
          /\ Emitted = << T("String.Double", "\"") >>
          /\ statestack' = Front(statestack)
    /\ (Top(statestack) = "interpolation" /\ At(text, pos, "}")) =>
          /\ Emitted = << T("String.Interpol", "}") >>
          /\ statestack' = Front(statestack)
          /\ Top(statestack') = "string-double"
    /\ (Top(statestack) = "interpolation" /\ ~At(text, pos, "}")) =>
          LET r == Turn(text, pos, <<"root">>)
          IN  /\ Emitted = r.out
              /\ pos' = r.pos
              /\ statestack' = statestack \o Tail(r.stack)

(* C5: in a double-quoted string '{' is an interpolation token and pushes   *)
(* the interpolation state, in which text is lexed by the rules of root;    *)
(* '}' is an interpolation token and pops back to the string, and the       *)
(* closing '"' pops the string: "a{x}b" is the seven tokens of the spec.    *)
C5_Interpolation == []C5_Sample /\ [][C5_Step]_vars

\* The interpolated string of the spec, lexed to the end.
C5_Witness == AtEnd /\ text = "\"a{x}b\"" /\ Len(tokens) = 7

\* The spec's namespace import, lexed.
C6_Sample ==
    (text = "using {a.b, c}" /\ AtEnd) =>
        /\ tokens = << T("Keyword.Namespace", "using"), T("Whitespace", " "),
                       T("Punctuation", "{"), T("Name.Namespace", "a"),
                       T("Punctuation", "."), T("Name.Namespace", "b"),
                       T("Punctuation", ","), T("Whitespace", " "),
                       T("Name.Namespace", "c"), T("Punctuation", "}") >>
        /\ statestack = <<"root">>

\* 'using', optional whitespace and '{' open the list; in the list names are
\* namespace names, '.', ',' and '/' are punctuation, and '}' closes it.
C6_Step ==
    /\ (InRootRules /\ At(text, pos, "using")
          /\ At(text, Run(text, pos + 5, In(Space)), "{")) =>
          LET w == Run(text, pos + 5, In(Space))
          IN  /\ Emitted = << T("Keyword.Namespace", "using") >>
                           \o (IF w > pos + 5
                               THEN << T("Whitespace", SubSeq(text, pos + 5, w - 1)) >>
                               ELSE <<>>)
                           \o << T("Punctuation", "{") >>
              /\ statestack' = Append(statestack, "using-block")
    /\ Top(statestack) = "using-block" =>
          /\ Has(text, pos, In(IdentStart)) =>
                /\ Emitted = << T("Name.Namespace",
                                  SubSeq(text, pos, Run(text, pos, In(Word)) - 1)) >>
                /\ statestack' = statestack
          /\ Has(text, pos, In({".", ",", "/"})) =>
                /\ Emitted = << T("Punctuation", Ch(text, pos)) >>
                /\ statestack' = statestack
          /\ Has(text, pos, In(Space)) =>
                /\ Emitted = << T("Whitespace",
                                  SubSeq(text, pos, Run(text, pos, In(Space)) - 1)) >>
                /\ statestack' = statestack
          /\ At(text, pos, "}") =>
                /\ Emitted = << T("Punctuation", "}") >>
                /\ statestack' = Front(statestack)

(* C6: 'using', optional whitespace and '{' are a namespace keyword, the    *)
(* whitespace if any, and punctuation, and push the using-block state, in   *)
(* which identifiers are namespace names, '.', ',' and '/' punctuation,     *)
(* whitespace is whitespace and '}' is punctuation and pops; "using {a.b,   *)
(* c}" is the ten tokens of the spec.                                       *)
C6_UsingBlock == []C6_Sample /\ [][C6_Step]_vars

\* The namespace import of the spec, lexed to the end.
C6_Witness == AtEnd /\ text = "using {a.b, c}" /\ Len(tokens) = 10

\* The spec's declaration, lexed.
C7_Sample ==
    (text = "class Foo" /\ AtEnd) =>
        tokens = << T("Keyword", "class"), T("Whitespace", " "), T("Name.Class", "Foo") >>

\* A whole-word data-structure keyword, whitespace and an identifier at the
\* cursor are emitted as keyword, whitespace and class name.
C7_Step ==
    \A kw \in data_structure_keywords :
       LET k == pos + Len(kw)
           s == Run(text, k, In(Space))
           e == Run(text, s, In(Word))
       IN  (/\ InRootRules
            /\ Boundary(text, pos)
            /\ At(text, pos, kw)
            /\ s > k
            /\ Has(text, s, In(IdentStart))) =>
              /\ Emitted = << T("Keyword", kw),
                              T("Whitespace", SubSeq(text, k, s - 1)),
                              T("Name.Class", SubSeq(text, s, e - 1)) >>
              /\ pos' = e
              /\ statestack' = statestack

(* C7: where root's rules apply, a whole-word data-structure keyword        *)
(* followed by whitespace and an identifier is emitted as keyword,          *)
(* whitespace and class name: "class Foo" is never identifier, whitespace,  *)
(* identifier.                                                              *)
C7_ClassName == []C7_Sample /\ [][C7_Step]_vars

\* The declaration of the spec, lexed to the end.
C7_Witness == AtEnd /\ text = "class Foo" /\ HasKind("Name.Class")

\* The end of an exponent (e or E, an optional sign, digits) at q, else q.
C8_AfterExponent(t, q) ==
    LET d == IF Has(t, q + 1, In({"+", "-"})) THEN q + 2 ELSE q + 1
    IN  IF Has(t, q, In({"e", "E"})) /\ Has(t, d, In(Digit)) THEN Run(t, d, In(Digit)) ELSE q

\* The kind and the end of the numeric literal at p, most specific shape
\* first; <<"", p>> when no literal starts at p.
C8_Literal(t, p) ==
    LET digits == Run(t, p, In(Digit))
        radix(set) == Run(t, p + 2, In(set))
    IN  CASE At(t, p, "0b") /\ radix({"0", "1", "_"}) > p + 2 ->
               <<"Number.Bin", radix({"0", "1", "_"})>>
          [] At(t, p, "0o") /\ radix({"0", "1", "2", "3", "4", "5", "6", "7", "_"}) > p + 2 ->
               <<"Number.Oct", radix({"0", "1", "2", "3", "4", "5", "6", "7", "_"})>>
          [] At(t, p, "0x") /\ radix(Digit \cup {"a", "b", "c", "d", "e", "f",
                                                "A", "B", "C", "D", "E", "F", "_"}) > p + 2 ->
               <<"Number.Hex", radix(Digit \cup {"a", "b", "c", "d", "e", "f",
                                                 "A", "B", "C", "D", "E", "F", "_"})>>
          [] digits > p /\ At(t, digits, ".") ->
               <<"Number.Float", C8_AfterExponent(t, Run(t, digits + 1, In(Digit)))>>
          [] digits > p /\ C8_AfterExponent(t, digits) > digits ->
               <<"Number.Float", C8_AfterExponent(t, digits)>>
          [] digits > p ->
               <<"Number.Integer", Run(t, p, In(Digit \cup {"_"}))>>
          [] OTHER -> <<"", p>>

\* The literals of the spec, lexed.
C8_Samples ==
    AtEnd =>
      /\ text = "0x1A" => tokens = << T("Number.Hex", "0x1A") >>
      /\ text = "0b101" => tokens = << T("Number.Bin", "0b101") >>
      /\ text = "0o17" => tokens = << T("Number.Oct", "0o17") >>
      /\ text = "3.14" => tokens = << T("Number.Float", "3.14") >>
      /\ text = "1e10" => tokens = << T("Number.Float", "1e10") >>
      /\ text = "3." => tokens = << T("Number.Float", "3.") >>
      /\ text = "42" => tokens = << T("Number.Integer", "42") >>

\* A literal at the cursor is emitted whole, as one token of its kind.
C8_Step ==
    LET lit == C8_Literal(text, pos)
    IN  (InRootRules /\ lit[1] # "") =>
           /\ Emitted = << T(lit[1], SubSeq(text, pos, lit[2] - 1)) >>
           /\ pos' = lit[2]
           /\ statestack' = statestack

(* C8: where root's rules apply, a numeric literal at the cursor is one     *)
(* token of its most specific kind: binary, octal and hexadecimal before    *)
(* the floats, the floats before the integer; 0x1A is one hex token, 3.14,  *)
(* 1e10 and 3. are one float token each and 42 is one integer token.        *)
C8_Numbers == []C8_Samples /\ [][C8_Step]_vars

\* The hexadecimal literal of the spec, lexed to the end.
C8_Witness == AtEnd /\ text = "0x1A" /\ HasKind("Number.Hex")

\* The weights, in tenths, of the signatures that match t.
C9_Weights(t) ==
    (IF HasUsingBlock(t) THEN 3 ELSE 0) + (IF HasDefinition(t) THEN 2 ELSE 0)
    + (IF HasSpecifier(t) THEN 3 ELSE 0) + (IF HasConcurrency(t) THEN 2 ELSE 0)
    + (IF HasClassDeclaration(t) THEN 2 ELSE 0) + (IF HasBlockComment(t) THEN 1 ELSE 0)

(* C9: the score is the sum of the weights of the signatures that match,    *)
(* clamped to 1.0 (10 tenths), so it lies in [0.0, 1.0]; and a text that    *)
(* matches one of ':=' and the namespace block scores no higher than the    *)
(* same text with the other signature added on a line of its own.           *)
C9_Score ==
    score # -1 =>
      /\ score \in 0 .. 10
      /\ score = Min(10, C9_Weights(text))
      /\ HasDefinition(text) # HasUsingBlock(text) =>
            LET both == text \o (IF HasDefinition(text) THEN "\nusing{}" ELSE "\n:=")
            IN  /\ HasDefinition(both) /\ HasUsingBlock(both)
                /\ analyse_text(both) >= score

\* A text that matches every signature: the sum, 1.3, is clamped to 1.0.
C9_Witness == score = 10 /\ C9_Weights(text) = 13

(* C10: lexing the concatenated spans of a lex gives the same (kind, span)  *)
(* pairs as that lex.                                                       *)
C10_Idempotent == (pass = 2 /\ AtEnd) => tokens = first

\* A second lex, with a grouped rule in it, run to the end.
C10_Witness == pass = 2 /\ AtEnd /\ HasKind("Name.Class") /\ Len(tokens) >= 3

\* Every turn moves the cursor forward and emits only non-empty spans; a lone
\* '<' or '#' in a block comment is consumed alone, as comment.
C11_Step ==
    /\ pos' > pos
    /\ pos' <= Len(text) + 1
    /\ \A i \in 1 .. Len(Emitted) : Emitted[i].text # ""
    /\ (/\ Top(statestack) = "multiline-comment"
        /\ Has(text, pos, In({"<", "#"}))
        /\ ~At(text, pos, "<#") /\ ~At(text, pos, "#>")) =>
          /\ Emitted = << T("Comment.Multiline", Ch(text, pos)) >>
          /\ pos' = pos + 1
          /\ statestack' = statestack

(* C11: every turn of the scan consumes at least one character, in every    *)
(* state and on every input, a lone '<' or '#' in a block comment being     *)
(* consumed alone; so the cursor eventually reaches the end of the text.    *)
C11_Terminates == <>AtEnd /\ [][C11_Step]_vars

\* A comment left open with a lone '<' in it, lexed to the end.
C11_Witness ==
    /\ AtEnd
    /\ text = "<#<"
    /\ tokens = << T("Comment.Multiline", "<#"), T("Comment.Multiline", "<") >>

\* The text at p is '(', an identifier, ':' and ')'.
C12_Qualified(t, p) ==
    /\ At(t, p, "(")
    /\ Has(t, p + 1, In(IdentStart))
    /\ At(t, Run(t, p + 1, In(Word)), ":)")

\* The turn taken at such a text emits one pseudo-builtin token for all of it.
C12_Step ==
    (Top(statestack) = "root" /\ C12_Qualified(text, pos)) =>
        LET e == Run(text, pos + 1, In(Word)) + 2
        IN  /\ Emitted = << T("Name.Builtin.Pseudo", SubSeq(text, pos, e - 1)) >>
            /\ pos' = e

(* C12: with root the current state, the text '(identifier:)' at the cursor *)
(* is emitted as one Name.Builtin.Pseudo token.                             *)
C12_QualifiedIsPseudo == [][C12_Step]_vars

\* The operators of more than one character.
C13_Operators == {":=", "=>", "->", "..", "+=", "-=", "*=", "/=", "==", "!=", "<=", ">="}

\* The turn taken at such an operator emits it whole, as one operator token.
C13_Step ==
    \A op \in C13_Operators :
       (Top(statestack) = "root" /\ At(text, pos, op)) =>
           /\ Emitted = << T("Operator", op) >>
           /\ pos' = pos + 2

(* C13: with root the current state, a multi-character operator at the      *)
(* cursor (':=', '=>', '->', '..', '+=', '-=', '*=', '/=', '==', '!=',      *)
(* '<=', '>=') is emitted whole as one Operator token.                      *)
C13_WholeOperator == [][C13_Step]_vars

\* The keyword lists, each with the token kind of its class.
C14_Classes ==
    { <<block_keywords, "Keyword">>,
      <<data_structure_keywords, "Keyword">>,
      <<decl_keywords, "Keyword.Declaration">>,
      <<type_keywords, "Keyword.Type">>,
      <<reserved_words, "Keyword.Reserved">>,
      <<logical_operators, "Operator.Word">> }

\* The word w stands at p as a whole word.
C14_WholeWord(t, p, w) ==
    /\ Boundary(t, p)
    /\ At(t, p, w)
    /\ ~Has(t, p + Len(w), In(Word))

\* The turn taken at a whole keyword emits the word with the kind of its
\* class, whatever follows it ('using' before '{', the namespace import, is
\* left to its own rule).
C14_Step ==
    \A c \in C14_Classes : \A w \in c[1] :
       (/\ Top(statestack) = "root"
        /\ C14_WholeWord(text, pos, w)
        /\ ~(w = "using" /\ At(text, Run(text, pos + 5, In(Space)), "{"))) =>
           /\ Emitted # <<>>
           /\ Emitted[1] = T(c[2], w)

(* C14: with root the current state, a whole word of a keyword list at the  *)
(* cursor is emitted with the token kind of its class (Keyword,             *)
(* Keyword.Declaration, Keyword.Type, Keyword.Reserved, Operator.Word),     *)
(* whatever text follows it, never as Name or Name.Function.                *)
C14_KeywordKind == [][C14_Step]_vars

\* 'using' stands at p and no '{' follows it, after whitespace if any.
C15_UsingAlone(t, p) ==
    /\ At(t, p, "using")
    /\ ~At(t, Run(t, p + 5, In(Space)), "{")

\* The kinds of the keyword tokens.
C15_KeywordKinds ==
    {"Keyword", "Keyword.Namespace", "Keyword.Declaration", "Keyword.Type",
     "Keyword.Reserved", "Keyword.Constant"}

\* A 'using' without '{' pushes nothing.  It is a declaration keyword when it
\* ends at a word boundary, unless an opening parenthesis follows and the
\* function rule takes it; inside a longer word it is part of a name.
C15_Step ==
    /\ (InRootRules /\ C15_UsingAlone(text, pos)) =>
          /\ statestack' = statestack
          /\ IF ReFunction(text, pos) # NoMatch
             THEN Emitted[1] = T("Name.Function",
                                 SubSeq(text, pos, Run(text, pos, In(Word)) - 1))
             ELSE IF Has(text, pos + 5, In(Word))
             THEN Emitted = << T("Name", SubSeq(text, pos, Run(text, pos, In(Word)) - 1)) >>
             ELSE Emitted = << T("Keyword.Declaration", "using") >>
    /\ (InRootRules /\ At(text, pos, "using") /\ ~C15_UsingAlone(text, pos)) =>
          /\ Emitted[1] = T("Keyword.Namespace", "using")
          /\ statestack' = Append(statestack, "using-block")

(* C15, amended: 'using' followed by optional whitespace and '{' is taken   *)
(* by the namespace-import rule, which comes first; a 'using' that is not   *)
(* followed by '{' never pushes a state, and it is emitted as a             *)
(* Keyword.Declaration token by the declaration keyword rule ('using' is in *)
(* decl_keywords), unless '(' follows it and the function rule takes it or  *)
(* it is the start of a longer word.                                        *)
C15_UsingKeyword == [][C15_Step]_vars

\* 'using' before a name, lexed: a declaration keyword, and nothing pushed.
C15_Witness ==
    /\ AtEnd
    /\ text = "using a"
    /\ tokens[1] = T("Keyword.Declaration", "using")
    /\ statestack = <<"root">>

\* The turn taken at a 'using' without '{' emits no keyword token and pushes
\* nothing.
C15_OnlyStep ==
    (InRootRules /\ C15_UsingAlone(text, pos)) =>
        /\ \A i \in 1 .. Len(Emitted) : Emitted[i].kind \notin C15_KeywordKinds
        /\ statestack' = statestack

(* C15 as stated: 'using' is recognised only by the namespace-import rule;  *)
(* a 'using' that is not followed by '{' is never emitted as a keyword      *)
(* token and never pushes a state.                                          *)
C15_OnlyNamespaceRule == [][C15_OnlyStep]_vars

\* The using-block state is only ever the top of the stack: nothing is pushed
\* while a list is read.
C16_OnTop ==
    \A i \in 1 .. Len(statestack) - 1 : statestack[i] # "using-block"

\* In a list '}' pops; '{' is consumed alone by the fallback and pushes
\* nothing; and nothing else changes the stack.
C16_Step ==
    Top(statestack) = "using-block" =>
       /\ At(text, pos, "}") =>
             /\ Emitted = << T("Punctuation", "}") >>
             /\ statestack' = Front(statestack)
       /\ At(text, pos, "{") =>
             /\ Turn(text, pos, statestack).fired = 0
             /\ Len(Emitted) = 1 /\ Emitted[1].text = "{"
             /\ pos' = pos + 1
       /\ ~At(text, pos, "}") => statestack' = statestack

\* A list with braces in it: the first '}' ends it.
C16_Sample ==
    (text = "using {a{b}c}" /\ pos > 7) =>
        statestack = IF pos <= 11 THEN <<"root", "using-block">> ELSE <<"root">>

(* C16: in the using-block state a '}' always pops to the enclosing state;  *)
(* a '{' in the list matches no rule, is consumed by the one-character      *)
(* fallback and pushes nothing, so the stack is never deeper than at entry  *)
(* plus one and the first '}' ends the list.                                *)
C16_NoNesting == [](C16_OnTop /\ C16_Sample) /\ [][C16_Step]_vars

\* A list with a '{' in it, lexed: the '{' went to the fallback.
C16_Witness ==
    /\ AtEnd
    /\ text = "using {a{b}c}"
    /\ \E i \in 1 .. Len(tokens) : tokens[i] = T("Error", "{")
    /\ statestack = <<"root">>

----------------------------------------------------------------------------
(* What is checked of the debug command line.                               *)

C17_HelpFlags == {"-h", "--help"}

C17_FileFlags == {"-f", "--file"}

\* Argument j is the file name of the -f or --file before it.
RECURSIVE C17_IsFileName(_, _)
C17_IsFileName(args, j) ==
    j > 1 /\ args[j - 1] \in C17_FileFlags /\ ~C17_IsFileName(args, j - 1)

\* The arguments that are read as options or block ids.
C17_Read(args) == {j \in 1 .. Len(args) : ~C17_IsFileName(args, j)}

C17_IsHelp(args, j) == j \in C17_Read(args) /\ args[j] \in C17_HelpFlags

C17_IsUnknownFlag(args, j) ==
    /\ j \in C17_Read(args)
    /\ At(args[j], 1, "-")
    /\ args[j] \notin C17_HelpFlags \cup C17_FileFlags

C17_IsFileFlagAlone(args, j) ==
    j \in C17_Read(args) /\ args[j] \in C17_FileFlags /\ j = Len(args)

\* The arguments at which main stops reading.
C17_Stops(args) ==
    {j \in 1 .. Len(args) :
        C17_IsHelp(args, j) \/ C17_IsUnknownFlag(args, j) \/ C17_IsFileFlagAlone(args, j)}

C17_Least(S) == CHOOSE j \in S : \A k \in S : j <= k

C17_Greatest(S) == CHOOSE j \in S : \A k \in S : j >= k

\* Help is displayed: there are no arguments, or reading stops at a help flag.
C17_HelpDisplayed(args) ==
    \/ Len(args) = 0
    \/ C17_Stops(args) # {} /\ C17_IsHelp(args, C17_Least(C17_Stops(args)))

\* The markdown file named by the arguments, and the block asked for.
C17_FileNamed(args) ==
    LET named == {j \in 1 .. Len(args) : C17_IsFileName(args, j)}
    IN  IF named = {} THEN DefaultFile ELSE args[C17_Greatest(named)]

C17_BlockAsked(args) ==
    LET ids == {j \in C17_Read(args) :
                   ~At(args[j], 1, "-") /\ args[j] \notin C17_HelpFlags \cup C17_FileFlags}
    IN  IF ids = {} THEN "all" ELSE args[C17_Greatest(ids)]

\* The content of the file named, as the search finds it.
C17_Content(fs, args) ==
    ReadFile(fs, C17_FileNamed(args), find_markdown_file(fs, C17_FileNamed(args)))

\* The causes of failure that the spec lists.
C17_UnknownFlagGiven(args) == \E j \in 1 .. Len(args) : C17_IsUnknownFlag(args, j)

C17_FileMissing(fs, args) == \A d \in {"cwd", "docs", "parent", "script"} :
                                ~isfile(fs, d, C17_FileNamed(args))

C17_NoBlocksFound(fs, args) ==
    ~C17_FileMissing(fs, args) /\ extract_code_blocks(C17_Content(fs, args)) = <<>>

C17_BlockMissing(fs, args) ==
    /\ ~C17_FileMissing(fs, args)
    /\ ~C17_NoBlocksFound(fs, args)
    /\ lower(C17_BlockAsked(args)) # "all"
    /\ \A k \in 1 .. Len(extract_code_blocks(C17_Content(fs, args))) :
          lower(extract_code_blocks(C17_Content(fs, args))[k][1])
             # lower(C17_BlockAsked(args))

C17_FileProblem(fs, args) ==
    C17_FileMissing(fs, args) \/ C17_NoBlocksFound(fs, args) \/ C17_BlockMissing(fs, args)

\* The exit code of a command line on a file system.
C17_Expected(fs, args) ==
    IF Len(args) = 0 THEN 0
    ELSE IF C17_Stops(args) # {}
         THEN (IF C17_IsHelp(args, C17_Least(C17_Stops(args))) THEN 0 ELSE 1)
    ELSE IF C17_FileProblem(fs, args) THEN 1
    ELSE 0

----------------------------------------------------------------------------
\* The states a state may lie directly above.
C18_Below(state) ==
    CASE state = "root"              -> {}
      [] state = "interpolation"     -> {"string-double"}
      [] state = "string-double"     -> {"root", "interpolation"}
      [] state = "using-block"       -> {"root", "interpolation"}
      [] state = "multiline-comment" -> {"root", "interpolation", "string-double",
                                         "multiline-comment"}

(* C18: in every reachable state stack, root is the bottom and occurs       *)
(* nowhere else; interpolation lies only directly above string-double;      *)
(* string-double and using-block lie only directly above root or            *)
(* interpolation; multiline-comment lies only directly above root,          *)
(* interpolation, string-double or another multiline-comment.               *)
C18_StackShape ==
    /\ Len(statestack) >= 1
    /\ \A i \in 1 .. Len(statestack) : statestack[i] \in States
    /\ statestack[1] = "root"
    /\ \A i \in 2 .. Len(statestack) : statestack[i] \in States \ {"root"}
                                       /\ statestack[i - 1] \in C18_Below(statestack[i])

\* Stacks in which every state lies above every state it may lie above.
C18_Witness ==
    \/ statestack = <<"root", "string-double", "interpolation", "string-double",
                      "multiline-comment">>
    \/ statestack = <<"root", "string-double", "interpolation", "using-block">>

----------------------------------------------------------------------------
\* In an interpolation '{' is punctuation and leaves the stack alone, and
\* '}' ends the interpolation whatever was read since it began.
C19_Step ==
    Top(statestack) = "interpolation" =>
       /\ At(text, pos, "{") =>
             /\ Emitted = << T("Punctuation", "{") >>
             /\ pos' = pos + 1
             /\ statestack' = statestack
       /\ At(text, pos, "}") =>
             /\ Emitted = << T("String.Interpol", "}") >>
             /\ pos' = pos + 1
             /\ statestack' = Front(statestack)
             /\ Top(statestack') = "string-double"

\* An interpolated expression with braces of its own: the inner '}' ends
\* the interpolation and the rest is string content.
C19_Sample ==
    (AtEnd /\ text = "\"{a{b}c}\"") =>
        /\ tokens = << T("String.Double", "\""), T("String.Interpol", "{"),
                       T("Name", "a"), T("Punctuation", "{"), T("Name", "b"),
                       T("String.Interpol", "}"), T("String.Double", "c}"),
                       T("String.Double", "\"") >>
        /\ statestack = <<"root">>

(* C19: brace nesting inside an interpolation is not tracked.  While        *)
(* interpolation is the current state a '{' is emitted as Punctuation and   *)
(* pushes nothing, and the first '}' pops back to string-double, even when  *)
(* it textually closes an inner '{' of the interpolated expression.         *)
C19_BracesNotTracked == []C19_Sample /\ [][C19_Step]_vars

\* The sample lexed: the text after the inner '}' is string content.
C19_Witness ==
    /\ AtEnd
    /\ text = "\"{a{b}c}\""
    /\ Len(tokens) = 8
    /\ tokens[4] = T("Punctuation", "{")
    /\ tokens[7] = T("String.Double", "c}")

----------------------------------------------------------------------------
\* In a string a backslash goes to the fallback alone and leaves the stack
\* as it is; a '"' ends the string, after a backslash as anywhere else.
C20_Step ==
    Top(statestack) = "string-double" =>
       /\ At(text, pos, "\\") =>
             /\ Turn(text, pos, statestack).fired = 0
             /\ Emitted = << T("Error", "\\") >>
             /\ pos' = pos + 1
             /\ statestack' = statestack
       /\ At(text, pos, "\"") =>
             /\ Emitted = << T("String.Double", "\"") >>
             /\ pos' = pos + 1
             /\ statestack' = Front(statestack)

\* A string with an escaped quote in it: the quote ends the string, and the
\* quote meant to end it begins another.
C20_Sample ==
    (AtEnd /\ text = "\"a\\\"b\"") =>
        /\ tokens = << T("String.Double", "\""), T("String.Double", "a"),
                       T("Error", "\\"), T("String.Double", "\""),
                       T("Name", "b"), T("String.Double", "\"") >>
        /\ statestack = <<"root", "string-double">>

(* C20: double-quoted strings have no escape handling.  In the              *)
(* string-double state a backslash matches no rule, is consumed alone by    *)
(* the one-character fallback and leaves the state stack unchanged, so a    *)
(* '"' immediately after a backslash still pops the string state and ends   *)
(* the string.                                                              *)
C20_NoEscapes == []C20_Sample /\ [][C20_Step]_vars

\* The sample lexed: the quote after the backslash ended the string.
C20_Witness ==
    /\ AtEnd
    /\ text = "\"a\\\"b\""
    /\ Len(tokens) = 6
    /\ tokens[3] = T("Error", "\\")
    /\ tokens[4] = T("String.Double", "\"")
    /\ tokens[5] = T("Name", "b")

====
